---- MODULE Spec2Model ----
(***************************************************************************)
(* Item REST service: validation schemas, item controllers, item service,  *)
(* response helpers and the global error handler, over a store that holds  *)
(* the rows of the items table.                                            *)
(*                                                                         *)
(* Text is modelled as a sequence of one-character strings, so that the    *)
(* numeric coercion of the schemas and the ILIKE match of the list query   *)
(* are computed character by character.  An optional value (a missing      *)
(* query parameter, a missing body field, undefined) is a set with at most *)
(* one element.                                                            *)
(***************************************************************************)
EXTENDS Integers, Sequences, FiniteSets, TLC

\* ------------------------------------------------------------------ bounds
\* Number of ids the serial sequence of the items table may hand out.
MaxId == 2
\* Number of query parameters a list request supplies at once.
MaxSupplied == 2

\* ------------------------------------------------------- program constants
DefaultPage == 1
DefaultLimit == 10
MinPage == 1
MinLimit == 1
MaxLimit == 100
\* Largest value of the integer (int4) column behind serial('id').
Int4Max == 2147483647

\* ------------------------------------------------------------------- text
Digit == {"0", "1", "2", "3", "4", "5", "6", "7", "8", "9"}

DigitVal(c) ==
  CASE c = "0" -> 0 [] c = "1" -> 1 [] c = "2" -> 2 [] c = "3" -> 3
    [] c = "4" -> 4 [] c = "5" -> 5 [] c = "6" -> 6 [] c = "7" -> 7
    [] c = "8" -> 8 [] c = "9" -> 9

None == {}
Some(x) == {x}
Get(o) == CHOOSE x \in o : TRUE
Opt(S) == {None} \cup {Some(x) : x \in S}

\* String.prototype.toLowerCase on the letters the model uses.
LowerChar(c) ==
  CASE c = "A" -> "a" [] c = "B" -> "b" [] OTHER -> c

Lower(s) == [i \in 1..Len(s) |-> LowerChar(s[i])]

\* ---------------------------------------------------------------- numbers
\* A JavaScript number: NaN, an integer within the int4 range (v), an
\* integer beyond it (kind "bigint", sign in neg), or a non-integer whose
\* truncation toward zero is v.
NaN == [kind |-> "nan", v |-> 0, neg |-> FALSE]
IntNum(n) == [kind |-> "int", v |-> n, neg |-> n < 0]

AllDigits(s) == \A i \in 1..Len(s) : s[i] \in Digit

\* Value of a digit string, or -1 when it exceeds Int4Max.
RECURSIVE DigitsValue(_, _)
DigitsValue(s, acc) ==
  IF s = <<>> THEN acc
  ELSE IF acc > (Int4Max - DigitVal(Head(s))) \div 10 THEN -1
  ELSE DigitsValue(Tail(s), acc * 10 + DigitVal(Head(s)))

DotAt(s) == {i \in 1..Len(s) : s[i] = "."}

\* Number(text) for decimal literals: optional sign, digits, optional
\* fraction; the empty string is 0 and every other text is NaN.  (Exponent,
\* hexadecimal and Infinity literals and surrounding white space are not
\* among the request texts of this model.)
ToNumber(s) ==
  IF s = <<>> THEN IntNum(0)
  ELSE
    LET signed == Head(s) \in {"-", "+"}
        neg == Head(s) = "-"
        body == IF signed THEN Tail(s) ELSE s
        dots == DotAt(body)
        d == IF dots = {} THEN Len(body) + 1 ELSE CHOOSE i \in dots : \A j \in dots : i <= j
        ip == SubSeq(body, 1, d - 1)
        fp == SubSeq(body, d + 1, Len(body))
        mag == DigitsValue(ip, 0)
        fracNonZero == \E i \in 1..Len(fp) : fp[i] # "0"
    IN IF ~(AllDigits(ip) /\ AllDigits(fp)) \/ (ip = <<>> /\ fp = <<>>) THEN NaN
       ELSE IF mag = -1 THEN [kind |-> "bigint", v |-> 0, neg |-> neg]
       ELSE IF fracNonZero THEN [kind |-> "frac", v |-> IF neg THEN 0 - mag ELSE mag, neg |-> neg]
       ELSE IntNum(IF neg THEN 0 - mag ELSE mag)

\* Number.isInteger
IsInteger(n) == n.kind \in {"int", "bigint"}

\* n >= k and n <= k for an integer k within the int4 range.
NumGeq(n, k) ==
  CASE n.kind = "int" -> n.v >= k
    [] n.kind = "bigint" -> ~n.neg
    [] n.kind = "frac" -> IF n.neg THEN n.v >= k + 1 ELSE n.v >= k
    [] OTHER -> FALSE

NumLeq(n, k) ==
  CASE n.kind = "int" -> n.v <= k
    [] n.kind = "bigint" -> n.neg
    [] n.kind = "frac" -> IF n.neg THEN n.v <= k ELSE n.v < k
    [] OTHER -> FALSE

NumPositive(n) ==
  CASE n.kind = "int" -> n.v > 0
    [] n.kind \in {"bigint", "frac"} -> ~n.neg
    [] OTHER -> FALSE

\* ------------------------------------------------------- validation (zod)
\* One issue of a ZodError: the path of the field, the issue code and the
\* message (the schema's own message where it sets one, else zod's default,
\* written here as the code).
Issue(field, code, message) == [path |-> <<field>>, code |-> code, message |-> message]

\* z.coerce.number().int(): the issues of the int() check on a coerced value.
IntIssues(field, n) ==
  IF IsInteger(n) THEN <<>> ELSE <<Issue(field, "invalid_type", "invalid_type")>>

\* page: z.coerce.number().int().min(1).default(1)
PageIssues(raw) ==
  IF raw = None THEN <<>>
  ELSE LET n == ToNumber(Get(raw))
       IN IF n.kind = "nan" THEN <<Issue("page", "invalid_type", "invalid_type")>>
          ELSE IntIssues("page", n)
               \o (IF NumGeq(n, MinPage) THEN <<>> ELSE <<Issue("page", "too_small", "too_small")>>)

\* Faulty variant: limit without max(100).
LimitIssuesNoMax(raw) ==
  IF raw = None THEN <<>>
  ELSE LET n == ToNumber(Get(raw))
       IN IF n.kind = "nan" THEN <<Issue("limit", "invalid_type", "invalid_type")>>
          ELSE IntIssues("limit", n)
               \o (IF NumGeq(n, MinLimit) THEN <<>> ELSE <<Issue("limit", "too_small", "too_small")>>)

\* Faulty variant: limit without min(1).
LimitIssuesNoMin(raw) ==
  IF raw = None THEN <<>>
  ELSE LET n == ToNumber(Get(raw))
       IN IF n.kind = "nan" THEN <<Issue("limit", "invalid_type", "invalid_type")>>
          ELSE IntIssues("limit", n)
               \o (IF NumLeq(n, MaxLimit) THEN <<>> ELSE <<Issue("limit", "too_big", "too_big")>>)

\* limit: z.coerce.number().int().min(1).max(100).default(10)
LimitIssues(raw) ==
  IF raw = None THEN <<>>
  ELSE LET n == ToNumber(Get(raw))
       IN IF n.kind = "nan" THEN <<Issue("limit", "invalid_type", "invalid_type")>>
          ELSE IntIssues("limit", n)
               \o (IF NumGeq(n, MinLimit) THEN <<>> ELSE <<Issue("limit", "too_small", "too_small")>>)
               \o (IF NumLeq(n, MaxLimit) THEN <<>> ELSE <<Issue("limit", "too_big", "too_big")>>)

\* order: z.enum(['asc', 'desc']).default('desc')
OrderIssues(raw) ==
  IF raw = None \/ Get(raw) \in {"asc", "desc"} THEN <<>>
  ELSE <<Issue("order", "invalid_enum_value", "invalid_enum_value")>>

\* paginationSchema.safeParse(query).error.issues, in the order of the
\* schema's fields; sort (z.string()) and q (z.string().optional()) accept
\* every text.
PaginationIssues(query) ==
  PageIssues(query.page) \o LimitIssues(query.limit) \o OrderIssues(query.order)

\* Faulty variant: a missing limit takes the default only when page is missing too.
PaginationParseCoupled(query) ==
  [page |-> IF query.page = None THEN DefaultPage ELSE ToNumber(Get(query.page)).v,
   limit |-> IF query.limit = None
               THEN (IF query.page = None THEN DefaultLimit ELSE MaxLimit)
             ELSE ToNumber(Get(query.limit)).v,
   sort |-> IF query.sort = None THEN "created_at" ELSE Get(query.sort),
   order |-> IF query.order = None THEN "desc" ELSE Get(query.order),
   q |-> query.q]

\* paginationSchema.parse(query) when it succeeds: each missing field takes
\* its default, q stays as given.
PaginationParse(query) ==
  [page |-> IF query.page = None THEN DefaultPage ELSE ToNumber(Get(query.page)).v,
   limit |-> IF query.limit = None THEN DefaultLimit ELSE ToNumber(Get(query.limit)).v,
   sort |-> IF query.sort = None THEN "created_at" ELSE Get(query.sort),
   order |-> IF query.order = None THEN "desc" ELSE Get(query.order),
   q |-> query.q]

\* A JSON value of a request body: a string (text s) or a number.
JStr(s) == [t |-> "string", s |-> s]
JNum == [t |-> "number", s |-> <<>>]

\* Faulty variant: name without min(1).
NameIssuesAllowEmpty(v) ==
  IF v.t # "string" THEN <<Issue("name", "invalid_type", "invalid_type")>> ELSE <<>>

\* name: z.string().min(1, 'Name is required')
NameIssues(v) ==
  IF v.t # "string" THEN <<Issue("name", "invalid_type", "invalid_type")>>
  ELSE IF Len(v.s) < 1 THEN <<Issue("name", "too_small", "Name is required")>>
  ELSE <<>>

\* Faulty variant: the insert schema over a name without min(1).
InsertItemIssuesAllowEmpty(body) ==
  IF body.name = None THEN <<Issue("name", "invalid_type", "Required")>>
  ELSE NameIssuesAllowEmpty(Get(body.name))

\* insertItemSchema = createInsertSchema(items, {name}).pick({name: true})
InsertItemIssues(body) ==
  IF body.name = None THEN <<Issue("name", "invalid_type", "Required")>>
  ELSE NameIssues(Get(body.name))

\* Faulty variant: partial() over a name without min(1).
UpdateItemIssuesAllowEmpty(body) ==
  IF body.name = None THEN <<>> ELSE NameIssuesAllowEmpty(Get(body.name))

\* updateItemSchema = insertItemSchema.partial()
UpdateItemIssues(body) ==
  IF body.name = None THEN <<>> ELSE NameIssues(Get(body.name))

\* Faulty variant: the parsed name is normalised to lower case.
ItemBodyParseLower(body) ==
  [name |-> IF body.name = None THEN None ELSE Some(Lower(Get(body.name).s)),
   id |-> None, createdAt |-> None]

\* Faulty variant: the keys id and createdAt of the body survive the parse.
ItemBodyParseKeepsKeys(body) ==
  [name |-> IF body.name = None THEN None ELSE Some(Get(body.name).s),
   id |-> body.id, createdAt |-> body.createdAt]

\* The parsed body of either schema: only the picked key name survives.
ItemBodyParse(body) ==
  [name |-> IF body.name = None THEN None ELSE Some(Get(body.name).s),
   id |-> None, createdAt |-> None]

\* A body without any key: what set() refuses with 'No values to set'.
NoValues(body) == body.name = None /\ body.id = None /\ body.createdAt = None

\* The row that values(data) / set(data) writes: every key of data replaces
\* the column, the other columns keep the given ones.
Written(row, body) ==
  [id |-> IF body.id = None THEN row.id ELSE Get(body.id),
   name |-> IF body.name = None THEN row.name ELSE Get(body.name),
   createdAt |-> IF body.createdAt = None THEN row.createdAt ELSE Get(body.createdAt)]

\* Faulty variant: id without positive().
ParamIdIssuesNoPositive(rawId) ==
  LET n == ToNumber(rawId)
  IN IF n.kind = "nan" THEN <<Issue("id", "invalid_type", "invalid_type")>>
     ELSE IntIssues("id", n)

\* paramIdSchema: id: z.coerce.number().int().positive('ID must be a positive integer')
ParamIdIssues(rawId) ==
  LET n == ToNumber(rawId)
  IN IF n.kind = "nan" THEN <<Issue("id", "invalid_type", "invalid_type")>>
     ELSE IntIssues("id", n)
          \o (IF NumPositive(n) THEN <<>>
              ELSE <<Issue("id", "too_small", "ID must be a positive integer")>>)

ParamIdParse(rawId) == ToNumber(rawId)

\* ------------------------------------------------------------ error values
\* A thrown value: a ZodError with its issues, an AppError with its
\* statusCode and message, or any other Error (cause names what failed; the
\* error handler never reads it).
Msg(text, n) == [text |-> text, id |-> n]

ZodError(issues) ==
  [type |-> "ZodError", statusCode |-> 0, message |-> None, issues |-> issues, cause |-> "validation"]

AppError(message, statusCode) ==
  [type |-> "AppError", statusCode |-> statusCode, message |-> Some(message),
   issues |-> <<>>, cause |-> "operational"]

PlainError(cause) ==
  [type |-> "Error", statusCode |-> 0, message |-> None, issues |-> <<>>, cause |-> cause]

\* `Item with ID ${id} not found`
NotFound(id) == AppError(Msg("Item with ID % not found", id), 404)

\* ------------------------------------------------------------- responses
\* A response: the status, and of the body its success flag, message, data
\* (shape none: no data key; single: one object; list: an array), meta and
\* errors.  Shape html is the page of Express's final handler, which is no
\* JSON envelope (success and data mean nothing there); stack names the
\* error whose stack trace the body shows, if any.
NoResponse ==
  [status |-> 0, success |-> FALSE, message |-> None, shape |-> "none", data |-> <<>>,
   meta |-> None, errors |-> None, stack |-> None]

\* Faulty variant: the statusCode argument is dropped.
SendSuccessOk(data, message, statusCode) ==
  [status |-> 200, success |-> TRUE, message |-> message, shape |-> "single",
   data |-> <<data>>, meta |-> None, errors |-> None, stack |-> None]

\* sendSuccess(res, data, message?, statusCode = 200)
SendSuccess(data, message, statusCode) ==
  [status |-> statusCode, success |-> TRUE, message |-> message, shape |-> "single",
   data |-> <<data>>, meta |-> None, errors |-> None, stack |-> None]

\* Faulty variant: Math.floor in place of Math.ceil.
TotalPagesFloor(totalItems, limit) == totalItems \div limit

\* Math.ceil(totalItems / limit) for totalItems >= 0 and limit >= 1.
TotalPages(totalItems, limit) ==
  (totalItems \div limit) + (IF totalItems % limit = 0 THEN 0 ELSE 1)

\* sendPaginatedSuccess(res, data, totalItems, page, limit)
SendPaginatedSuccess(data, totalItems, page, limit) ==
  [status |-> 200, success |-> TRUE, message |-> None, shape |-> "list", data |-> data,
   meta |-> Some([page |-> page, limit |-> limit, totalItems |-> totalItems,
                  totalPages |-> TotalPages(totalItems, limit)]),
   errors |-> None, stack |-> None]

\* errorHandler(err, req, res, _next)
ErrorHandler(err) ==
  LET statusCode == IF err.type = "AppError" THEN err.statusCode
                    ELSE IF err.type = "ZodError" THEN 400 ELSE 500
      message == IF err.type = "AppError" THEN err.message
                 ELSE IF err.type = "ZodError" THEN Some(Msg("Validation Error", 0))
                 ELSE Some(Msg("Internal Server Error", 0))
      errors == IF err.type = "ZodError" THEN Some(err.issues) ELSE None
  IN [status |-> statusCode, success |-> FALSE, message |-> message, shape |-> "none",
      data |-> <<>>, meta |-> None, errors |-> errors, stack |-> None]

\* ------------------------------------------------------------- list query
\* ILIKE: pattern p against text s, both already lower-cased; % matches any
\* run of characters, _ any one character.  (No request text of this model
\* holds the escape character.)
RECURSIVE Like(_, _)
Like(p, s) ==
  IF p = <<>> THEN s = <<>>
  ELSE IF Head(p) = "%" THEN Like(Tail(p), s) \/ (s # <<>> /\ Like(p, Tail(s)))
  ELSE IF Head(p) = "_" THEN s # <<>> /\ Like(Tail(p), Tail(s))
  ELSE s # <<>> /\ Head(s) = Head(p) /\ Like(Tail(p), Tail(s))

ILike(s, p) == Like(Lower(p), Lower(s))

\* q ? ilike(items.name, `%${q}%`) : undefined
WhereClause(q) ==
  IF q # None /\ Get(q) # <<>> THEN Some(<<"%">> \o Get(q) \o <<"%">>) ELSE None

\* Properties every object literal inherits from Object.prototype (those the
\* request texts of this model name).
InheritedKeys == {"constructor", "__proto__"}

\* sortMap[sort]: the column of an own key, the inherited value, or undefined.
SortMapLookup(sort) ==
  CASE sort = "id" -> Some([kind |-> "column", name |-> "id"])
    [] sort = "name" -> Some([kind |-> "column", name |-> "name"])
    [] sort = "created_at" -> Some([kind |-> "column", name |-> "createdAt"])
    [] sort \in InheritedKeys -> Some([kind |-> "inherited", name |-> sort])
    [] OTHER -> None

\* Faulty variant: every sort key orders by id.
SortColumnIdOnly(sort) == [kind |-> "column", name |-> "id"]

\* sortMap[sort] || items.id
SortColumn(sort) ==
  IF SortMapLookup(sort) # None THEN Get(SortMapLookup(sort))
  ELSE [kind |-> "column", name |-> "id"]

\* Faulty variant: the page is taken as 0-based.
OffsetZeroBased(page, limit) == page * limit

\* (page - 1) * limit
Offset(page, limit) == (page - 1) * limit

\* The data query getAllItemsService builds from its params.
ListPlan(params) ==
  [limit |-> params.limit,
   offset |-> Offset(params.page, params.limit),
   where |-> WhereClause(params.q),
   column |-> SortColumn(params.sort),
   dir |-> IF params.order = "asc" THEN "asc" ELSE "desc"]

Matches(where, row) == where = None \/ ILike(row.name, Get(where))

Matching(rows, where) == {row \in rows : Matches(where, row)}

\* Byte order of the characters of the model (the C collation).
CharRank(c) ==
  CASE c = "%" -> 37 [] c = "A" -> 65 [] c = "B" -> 66 [] c = "_" -> 95
    [] c = "a" -> 97 [] c = "b" -> 98 [] OTHER -> 0

RECURSIVE TextLeq(_, _)
TextLeq(a, b) ==
  IF a = <<>> THEN TRUE
  ELSE IF b = <<>> THEN FALSE
  ELSE IF CharRank(Head(a)) # CharRank(Head(b)) THEN CharRank(Head(a)) < CharRank(Head(b))
  ELSE TextLeq(Tail(a), Tail(b))

\* row a may precede row b under ORDER BY column dir.
Precedes(a, b, column, dir) ==
  LET leq(x, y) == CASE column.name = "id" -> x.id <= y.id
                     [] column.name = "name" -> TextLeq(x.name, y.name)
                     [] column.name = "createdAt" -> x.createdAt <= y.createdAt
  IN IF column.kind # "column" THEN TRUE
     ELSE IF dir = "asc" THEN leq(a, b) ELSE leq(b, a)

\* Every order in which the store may return rows under ORDER BY column dir:
\* rows with equal keys come in any order.
Orderings(rows, column, dir) ==
  {s \in [1..Cardinality(rows) -> rows] :
     /\ \A i, j \in 1..Cardinality(rows) : i # j => s[i] # s[j]
     /\ \A i, j \in 1..Cardinality(rows) : i < j => Precedes(s[i], s[j], column, dir)}

Min(a, b) == IF a <= b THEN a ELSE b

\* Faulty variant: the slice starts one row early.
SliceFromOffset(s, limit, offset) ==
  SubSeq(s, IF offset = 0 THEN 1 ELSE offset, Min(Len(s), offset + limit - 1))

\* LIMIT limit OFFSET offset over an ordered result.
Slice(s, limit, offset) == SubSeq(s, offset + 1, Min(Len(s), offset + limit))

\* ---------------------------------------------------------- request texts
T1 == <<"1">>
T2 == <<"2">>
T3 == <<"3">>
T0 == <<"0">>
THalf == <<"1", ".", "5">>
TAbc == <<"a", "b", "c">>
TNeg == <<"-", "1">>
T100 == <<"1", "0", "0">>
T101 == <<"1", "0", "1">>
TBig == <<"2", "1", "4", "7", "4", "8", "3", "6", "4", "8">>

RawPages == {T1, T2, T3, T0, THalf, TAbc}
RawLimits == {T1, T2, T100, T101, T0}
RawSorts == {"id", "name", "created_at", "bogus_field", "constructor", "__proto__"}
RawOrders == {"asc", "desc", "ASC"}
RawSearches == {<<>>, <<"a">>, <<"B">>, <<"_">>}
RawIds == {T1, T2, T3, T0, TNeg, THalf, TAbc, TBig}

Names == {<<"A", "b">>, <<"b">>}
RawNames == {None, Some(JNum), Some(JStr(<<>>))} \cup {Some(JStr(n)) : n \in Names}
\* Bodies of the one key name, and bodies that also carry id and createdAt.
ForgedKeys == [id |-> Some(9), createdAt |-> Some(99)]
RawBodies ==
  {[name |-> n, id |-> None, createdAt |-> None] : n \in RawNames}
  \cup {[name |-> n, id |-> ForgedKeys.id, createdAt |-> ForgedKeys.createdAt] :
          n \in {None, Some(JStr(<<"b">>))}}

Supplied(query) ==
  Cardinality({f \in {"page", "limit", "sort", "order", "q"} : query[f] # None})

\* The query strings of the list requests: at most MaxSupplied parameters
\* are present at once.
RawQueries ==
  {query \in [page : Opt(RawPages), limit : Opt(RawLimits), sort : Opt(RawSorts),
              order : Opt(RawOrders), q : Opt(RawSearches)] :
     Supplied(query) <= MaxSupplied}

\* Params a caller of the exported service passes without the controller
\* (typed PaginationParams: page and limit are any numbers).
DirectParams ==
  [page : {1, 2}, limit : {0, 2, 101}, sort : {"id"}, order : {"asc"}, q : {None}]

\* -------------------------------------------------------------------- state
VARIABLES
  items,    \* rows of the items table
  nextId,   \* next value of the serial sequence of items.id
  clock,    \* the store's now()
  req,      \* per connection: the request being served and its response
  hits,     \* requests the rate limiter has counted in the current window
  nodeEnv,  \* NODE_ENV of the process
  proc      \* the process and its HTTP server: listening, closing, exited

vars == <<items, nextId, clock, req, hits, nodeEnv, proc>>

\* What the item handlers neither read nor write.
chainVars == <<hits, nodeEnv, proc>>

Conns == {1, 2}

EmptyQuery == [page |-> None, limit |-> None, sort |-> None, order |-> None, q |-> None]
NoParams == [page |-> 0, limit |-> 0, sort |-> "", order |-> "", q |-> None]
NoPlan ==
  [limit |-> 0, offset |-> 0, where |-> None, column |-> [kind |-> "none", name |-> ""],
   dir |-> ""]
NoRet == [state |-> "none", cause |-> ""]

EmptyBody == [name |-> None, id |-> None, createdAt |-> None]

\* A connection with no request yet.
Idle ==
  [kind |-> "none", pc |-> "idle", query |-> EmptyQuery, rawId |-> None,
   rawBody |-> EmptyBody, params |-> NoParams, id |-> NaN, body |-> EmptyBody,
   plan |-> NoPlan, rows |-> <<>>, total |-> 0, calls |-> 0, steps |-> <<>>,
   ret |-> NoRet, res |-> NoResponse]

\* The process after app.listen: the server accepts connections, no signal
\* has arrived.
Running ==
  [listening |-> TRUE, signals |-> 0, callbacks |-> 0, timers |-> 0, pending |-> 0,
   exit |-> None]

\* The store after the tests' TRUNCATE, no request received yet.
InitStore ==
  /\ items = {}
  /\ nextId = 1
  /\ clock = 0
  /\ req = [c \in Conns |-> Idle]
  /\ hits = 0
  /\ proc = Running

\* The production start script (NODE_ENV=production bun run ./dist/index.js).
Init ==
  /\ InitStore
  /\ nodeEnv = "production"

Free(c) == req[c].pc = "idle"

\* Faulty variant: the rejection is caught and dropped, nothing is written.
RejectedSwallowed(r, err) == [r EXCEPT !.pc = "done"]

\* asyncHandler: a rejection of the controller goes to next(err), that is to
\* errorHandler, which writes the response.
Rejected(r, err) ==
  [r EXCEPT !.pc = "done", !.res = ErrorHandler(err), !.steps = @ \o <<"errorHandler">>]

\* The service's promise rejects with err: the controller does not catch it.
ServiceThrew(r, err) ==
  LET r2 == [r EXCEPT !.ret = [state |-> "threw", cause |-> err.cause]]
  IN IF r.kind = "svcList" THEN [r2 EXCEPT !.pc = "done"] ELSE Rejected(r2, err)

Responded(r, res) ==
  [r EXCEPT !.pc = "done", !.res = res, !.steps = @ \o <<"send">>]

\* --------------------------------------------------------------- list
\* getAllItemsService(params) up to its first await: the data query is built
\* and sent.
CallListService(r, params) ==
  [r EXCEPT !.params = params, !.plan = ListPlan(params), !.pc = "data",
            !.steps = @ \o <<"service">>]

\* GET /items: getItems validates the query and calls the service.
GetItems(c) ==
  /\ Free(c)
  /\ \E query \in RawQueries :
       LET r == [Idle EXCEPT !.kind = "list", !.query = query, !.steps = <<"validate">>]
           issues == PaginationIssues(query)
       IN req' = [req EXCEPT ![c] =
                    IF issues # <<>> THEN Rejected(r, ZodError(issues))
                    ELSE CallListService(r, PaginationParse(query))]
  /\ UNCHANGED <<items, nextId, clock>>

\* A direct call of the exported getAllItemsService (as the service test).
ServiceList(c) ==
  /\ Free(c)
  /\ \E params \in DirectParams :
       req' = [req EXCEPT ![c] = CallListService([Idle EXCEPT !.kind = "svcList"], params)]
  /\ UNCHANGED <<items, nextId, clock>>

\* The store answers the data query: the matching rows, ordered, limited.
\* An ORDER BY operand that is not a column (an inherited property of sortMap)
\* either makes the query fail or leaves the rows in the store's own order.
ExecDataQuery(c) ==
  /\ req[c].pc = "data"
  /\ LET r == req[c]
         plan == r.plan
         matching == Matching(items, plan.where)
     IN \/ /\ plan.column.kind # "column"
           /\ req' = [req EXCEPT ![c] = ServiceThrew(r, PlainError("order by"))]
        \/ \E s \in Orderings(matching, plan.column, plan.dir) :
             req' = [req EXCEPT ![c] =
                       [r EXCEPT !.rows = Slice(s, plan.limit, plan.offset),
                                 !.calls = @ + 1, !.pc = "count"]]
  /\ UNCHANGED <<items, nextId, clock>>

\* The store answers the count query; the service returns {data, total} and
\* getItems sends the paginated response.
ExecCountQuery(c) ==
  /\ req[c].pc = "count"
  /\ LET r == req[c]
         total == Cardinality(Matching(items, r.plan.where))
         r2 == [r EXCEPT !.total = total, !.calls = @ + 1,
                         !.ret = [state |-> "value", cause |-> ""]]
     IN req' = [req EXCEPT ![c] =
                  IF r.kind = "svcList" THEN [r2 EXCEPT !.pc = "done"]
                  ELSE Responded(r2, SendPaginatedSuccess(r.rows, total, r.params.page,
                                                          r.params.limit))]
  /\ UNCHANGED <<items, nextId, clock>>

\* ------------------------------------------------------------ get by id
\* The integer column rejects a parameter beyond its range.
OutOfRange(id) == id.kind = "bigint"

\* Faulty variant: the where clause is dropped.
FindByIdAll(rows, id) == rows

\* Faulty variant: the row after the one asked for.
FindByIdNext(rows, id) == {row \in rows : row.id = id.v + 1}

\* where(eq(items.id, id))
FindById(rows, id) == {row \in rows : row.id = id.v}

\* GET /items/:id
GetItemById(c) ==
  /\ Free(c)
  /\ \E rawId \in RawIds :
       LET r == [Idle EXCEPT !.kind = "get", !.rawId = Some(rawId), !.steps = <<"validate">>]
           issues == ParamIdIssues(rawId)
       IN req' = [req EXCEPT ![c] =
                    IF issues # <<>> THEN Rejected(r, ZodError(issues))
                    ELSE [r EXCEPT !.id = ParamIdParse(rawId), !.pc = "one",
                                   !.steps = @ \o <<"service">>]]
  /\ UNCHANGED <<items, nextId, clock>>

\* Faulty variant: the answer comes from a copy taken at start-up (no rows),
\* without a statement to the store.
ExecSelectByIdCached(c) ==
  /\ req[c].pc = "one" /\ req[c].kind = "get"
  /\ req' = [req EXCEPT ![c] =
               IF OutOfRange(req[c].id) THEN ServiceThrew(req[c], PlainError("out of range"))
               ELSE Rejected([req[c] EXCEPT !.ret = [state |-> "undefined", cause |-> ""]],
                             NotFound(req[c].id.v))]
  /\ UNCHANGED <<items, nextId, clock>>

\* db.select().from(items).where(eq(items.id, id)).limit(1), then the
\* controller's not-found check.
ExecSelectById(c) ==
  /\ req[c].pc = "one" /\ req[c].kind = "get"
  /\ LET r == [req[c] EXCEPT !.calls = @ + 1]
         found == FindById(items, r.id)
     IN req' = [req EXCEPT ![c] =
                  IF OutOfRange(r.id) THEN ServiceThrew(r, PlainError("out of range"))
                  ELSE IF found = {}
                    THEN Rejected([r EXCEPT !.ret = [state |-> "undefined", cause |-> ""]],
                                  NotFound(r.id.v))
                  ELSE Responded([r EXCEPT !.ret = [state |-> "value", cause |-> ""]],
                                 SendSuccess(Get(found), None, 200))]
  /\ UNCHANGED <<items, nextId, clock>>

\* --------------------------------------------------------------- create
\* Inserts sent to the store and not yet answered.
PendingInserts == Cardinality({c \in Conns : req[c].pc = "one" /\ req[c].kind = "create"})

\* POST /items
CreateItem(c) ==
  /\ Free(c)
  /\ \E rawBody \in RawBodies :
       LET r == [Idle EXCEPT !.kind = "create", !.rawBody = rawBody, !.steps = <<"validate">>]
           issues == InsertItemIssues(rawBody)
       IN /\ issues = <<>> => nextId + PendingInserts <= MaxId
          /\ req' = [req EXCEPT ![c] =
                       IF issues # <<>> THEN Rejected(r, ZodError(issues))
                       ELSE [r EXCEPT !.body = ItemBodyParse(rawBody), !.pc = "one",
                                      !.steps = @ \o <<"service">>]]
  /\ UNCHANGED <<items, nextId, clock>>

\* db.insert(items).values(data).returning(): id from the serial sequence,
\* createdAt from now().
ExecInsert(c) ==
  /\ req[c].pc = "one" /\ req[c].kind = "create"
  /\ \E now \in {clock, clock + 1} :
       LET r == [req[c] EXCEPT !.calls = @ + 1, !.ret = [state |-> "value", cause |-> ""]]
           row == Written([id |-> nextId, name |-> <<>>, createdAt |-> now], r.body)
       IN /\ items' = items \cup {row}
          /\ nextId' = nextId + 1
          /\ clock' = now
          /\ req' = [req EXCEPT ![c] =
                       Responded(r, SendSuccess(row, Some(Msg("Item created successfully", 0)),
                                                201))]

\* Faulty variant: the service is called with the body as received.
UpdateItemBodyUnchecked(c) ==
  /\ Free(c)
  /\ \E rawId \in RawIds, rawBody \in RawBodies :
       LET r == [Idle EXCEPT !.kind = "update", !.rawId = Some(rawId), !.rawBody = rawBody,
                             !.steps = <<"validate">>]
           idIssues == ParamIdIssues(rawId)
           body == ItemBodyParse(rawBody)
           called == [r EXCEPT !.id = ParamIdParse(rawId), !.body = body,
                               !.steps = @ \o <<"service">>]
       IN req' = [req EXCEPT ![c] =
                    IF idIssues # <<>> THEN Rejected(r, ZodError(idIssues))
                    ELSE IF NoValues(body)
                      THEN ServiceThrew(called, PlainError("No values to set"))
                    ELSE [called EXCEPT !.pc = "one"]]
  /\ UNCHANGED <<items, nextId, clock>>

\* --------------------------------------------------------------- update
\* PATCH /items/:id: the id is parsed first, the body after it; the service
\* builds db.update(items).set(data), and set() throws when data holds no
\* value.
UpdateItem(c) ==
  /\ Free(c)
  /\ \E rawId \in RawIds, rawBody \in RawBodies :
       LET r == [Idle EXCEPT !.kind = "update", !.rawId = Some(rawId), !.rawBody = rawBody,
                             !.steps = <<"validate">>]
           idIssues == ParamIdIssues(rawId)
           bodyIssues == UpdateItemIssues(rawBody)
           body == ItemBodyParse(rawBody)
           called == [r EXCEPT !.id = ParamIdParse(rawId), !.body = body,
                               !.steps = @ \o <<"service">>]
       IN req' = [req EXCEPT ![c] =
                    IF idIssues # <<>> THEN Rejected(r, ZodError(idIssues))
                    ELSE IF bodyIssues # <<>> THEN Rejected(r, ZodError(bodyIssues))
                    ELSE IF NoValues(body)
                      THEN ServiceThrew(called, PlainError("No values to set"))
                    ELSE [called EXCEPT !.pc = "one"]]
  /\ UNCHANGED <<items, nextId, clock>>

\* db.update(items).set(data).where(eq(items.id, id)).returning()
ExecUpdate(c) ==
  /\ req[c].pc = "one" /\ req[c].kind = "update"
  /\ LET r == [req[c] EXCEPT !.calls = @ + 1]
         found == FindById(items, r.id)
         updated == Written(Get(found), r.body)
     IN IF OutOfRange(r.id)
          THEN /\ req' = [req EXCEPT ![c] = ServiceThrew(r, PlainError("out of range"))]
               /\ items' = items
        ELSE IF found = {}
          THEN /\ req' = [req EXCEPT ![c] =
                            Rejected([r EXCEPT !.ret = [state |-> "undefined", cause |-> ""]],
                                     NotFound(r.id.v))]
               /\ items' = items
        ELSE /\ items' = (items \ found) \cup {updated}
             /\ req' = [req EXCEPT ![c] =
                          Responded([r EXCEPT !.ret = [state |-> "value", cause |-> ""]],
                                    SendSuccess(updated,
                                                Some(Msg("Item updated successfully", 0)), 200))]
  /\ UNCHANGED <<nextId, clock>>

\* --------------------------------------------------------------- delete
\* DELETE /items/:id
DeleteItem(c) ==
  /\ Free(c)
  /\ \E rawId \in RawIds :
       LET r == [Idle EXCEPT !.kind = "delete", !.rawId = Some(rawId), !.steps = <<"validate">>]
           issues == ParamIdIssues(rawId)
       IN req' = [req EXCEPT ![c] =
                    IF issues # <<>> THEN Rejected(r, ZodError(issues))
                    ELSE [r EXCEPT !.id = ParamIdParse(rawId), !.pc = "one",
                                   !.steps = @ \o <<"service">>]]
  /\ UNCHANGED <<items, nextId, clock>>

\* Faulty variant: the row is read and returned, and stays in the store.
ExecDeleteKeepsRow(c) ==
  /\ req[c].pc = "one" /\ req[c].kind = "delete"
  /\ LET r == [req[c] EXCEPT !.calls = @ + 1]
         found == FindById(items, r.id)
     IN req' = [req EXCEPT ![c] =
                  IF OutOfRange(r.id) THEN ServiceThrew(r, PlainError("out of range"))
                  ELSE IF found = {}
                    THEN Rejected([r EXCEPT !.ret = [state |-> "undefined", cause |-> ""]],
                                  NotFound(r.id.v))
                  ELSE Responded([r EXCEPT !.ret = [state |-> "value", cause |-> ""]],
                                 SendSuccess(Get(found),
                                             Some(Msg("Item deleted successfully", 0)), 200))]
  /\ UNCHANGED <<items, nextId, clock>>

\* db.delete(items).where(eq(items.id, id)).returning()
ExecDelete(c) ==
  /\ req[c].pc = "one" /\ req[c].kind = "delete"
  /\ LET r == [req[c] EXCEPT !.calls = @ + 1]
         found == FindById(items, r.id)
     IN IF OutOfRange(r.id)
          THEN /\ req' = [req EXCEPT ![c] = ServiceThrew(r, PlainError("out of range"))]
               /\ items' = items
        ELSE IF found = {}
          THEN /\ req' = [req EXCEPT ![c] =
                            Rejected([r EXCEPT !.ret = [state |-> "undefined", cause |-> ""]],
                                     NotFound(r.id.v))]
               /\ items' = items
        ELSE /\ items' = items \ found
             /\ req' = [req EXCEPT ![c] =
                          Responded([r EXCEPT !.ret = [state |-> "value", cause |-> ""]],
                                    SendSuccess(Get(found),
                                                Some(Msg("Item deleted successfully", 0)), 200))]
  /\ UNCHANGED <<nextId, clock>>

\* ---------------------------------------------------------- store failure
\* The store is unreachable when a query is sent: the driver rejects, the
\* service lets the rejection through and nothing is read or written.
StoreError(c) ==
  /\ req[c].pc \in {"data", "count", "one"}
  /\ req' = [req EXCEPT ![c] = ServiceThrew(req[c], PlainError("store unreachable"))]
  /\ UNCHANGED <<items, nextId, clock>>

\* res.json(...) has ended the response: the connection takes its next
\* request.
Close(c) ==
  /\ req[c].pc = "done"
  /\ req' = [req EXCEPT ![c] = Idle]
  /\ UNCHANGED <<items, nextId, clock>>

\* ------------------------------------------------------------ behaviours
\* The item routes on one connection, each request answered before the next
\* one is received; the requests are those the rate limiter has let through.
Next ==
  \/ GetItems(1) /\ UNCHANGED chainVars
  \/ ServiceList(1) /\ UNCHANGED chainVars
  \/ ExecDataQuery(1) /\ UNCHANGED chainVars
  \/ ExecCountQuery(1) /\ UNCHANGED chainVars
  \/ GetItemById(1) /\ UNCHANGED chainVars
  \/ ExecSelectById(1) /\ UNCHANGED chainVars
  \/ CreateItem(1) /\ UNCHANGED chainVars
  \/ ExecInsert(1) /\ UNCHANGED chainVars
  \/ UpdateItem(1) /\ UNCHANGED chainVars
  \/ ExecUpdate(1) /\ UNCHANGED chainVars
  \/ DeleteItem(1) /\ UNCHANGED chainVars
  \/ ExecDelete(1) /\ UNCHANGED chainVars
  \/ StoreError(1) /\ UNCHANGED chainVars
  \/ Close(1) /\ UNCHANGED chainVars

Spec == Init /\ [][Next]_vars

\* ------------------------------------------------------- middleware chain
\* The chain of app.ts in its order: express.json(), pinoHttp (which sets
\* req.log), the rate limiter, the health routes, the item routes, and last
\* errorHandler; behind it stands the final handler of Express.
RateMax == 100

NodeEnvs == {"development", "production", "test"}

ChainInit ==
  /\ InitStore
  /\ nodeEnv \in NodeEnvs

\* The limiter lets the request through and counts it.
Admit == hits < RateMax /\ hits' = hits + 1 /\ UNCHANGED <<nodeEnv, proc>>

\* The limiter's window (15 minutes) has passed.
WindowReset ==
  /\ hits > 0
  /\ hits' = 0
  /\ UNCHANGED <<items, nextId, clock, req, nodeEnv, proc>>

\* The limiter answers a request beyond max itself, with its message.
RateLimited(c) ==
  /\ Free(c)
  /\ hits >= RateMax
  /\ \E kind \in {"health", "live", "ready", "get"} :
       req' = [req EXCEPT ![c] =
                 [Idle EXCEPT !.kind = kind, !.pc = "done", !.steps = <<"limiter">>,
                              !.res = [NoResponse EXCEPT
                                         !.status = 429,
                                         !.message = Some(Msg("Too many requests from this IP, please try again later.", 0))]]]
  /\ UNCHANGED <<items, nextId, clock, hits, nodeEnv, proc>>

\* What express.json() passes to next() for a body that is no JSON: an Error
\* that carries status 400.
BodyParseError ==
  [type |-> "Error", statusCode |-> 400, message |-> None, issues |-> <<>>,
   cause |-> "entity.parse.failed"]

\* What reading req.log.error / req.log.warn throws while req.log is undefined.
LogTypeError == PlainError("req.log is undefined")

\* The final handler of Express, for an error no error handler answered: an
\* HTML page at the error's status (500 without one) that shows the status
\* text when the env is production and err.stack otherwise.
FinalHandler(err, env) ==
  [NoResponse EXCEPT
     !.status = 500,
     !.shape = "html",
     !.message = IF env = "production" THEN Some(Msg("Internal Server Error", 0)) ELSE None,
     !.stack = IF env = "production" THEN None ELSE Some(err.cause)]

\* errorHandler while req.log is undefined: whichever status it has picked,
\* its log statement (req.log.error from 500 up, req.log.warn below) throws
\* before the response is written.
ErrorHandlerUnlogged(err) == LogTypeError

\* A request with a JSON content type whose body is no JSON: express.json()
\* calls next(err) before pinoHttp has run; errorHandler throws, and the
\* final handler answers for what it threw.
JsonParseFailed(c) ==
  /\ Free(c)
  /\ LET r == [Idle EXCEPT !.kind = "badJson",
                          !.steps = <<"json", "errorHandler", "finalhandler">>,
                          !.ret = [state |-> "threw", cause |-> BodyParseError.cause]]
     IN req' = [req EXCEPT ![c] =
                  [r EXCEPT !.pc = "done",
                            !.res = FinalHandler(ErrorHandlerUnlogged(BodyParseError), nodeEnv)]]
  /\ UNCHANGED <<items, nextId, clock, hits, nodeEnv, proc>>

\* ---------------------------------------------------------------- health
\* Faulty variant: checks.database keeps the value it was initialised with.
HealthDataStale(status, database, env) ==
  [status |-> status, environment |-> env, database |-> "ok"]

\* healthData of getHealth (timestamp and uptime left out).
HealthData(status, database, env) ==
  [status |-> status, environment |-> env, database |-> database]

\* GET /health and GET /health/ready up to the await of the ping.
GetHealth(c) ==
  /\ Free(c)
  /\ req' = [req EXCEPT ![c] = [Idle EXCEPT !.kind = "health", !.pc = "ping"]]
  /\ UNCHANGED <<items, nextId, clock>>

GetReadiness(c) ==
  /\ Free(c)
  /\ req' = [req EXCEPT ![c] = [Idle EXCEPT !.kind = "ready", !.pc = "ping"]]
  /\ UNCHANGED <<items, nextId, clock>>

\* GET /health/live
GetLiveness(c) ==
  /\ Free(c)
  /\ req' = [req EXCEPT ![c] =
               Responded([Idle EXCEPT !.kind = "live"],
                         SendSuccess([status |-> "alive"], None, 200))]
  /\ UNCHANGED <<items, nextId, clock>>

\* db.execute(sql`SELECT 1`) resolves.
PingOk(c) ==
  /\ req[c].pc = "ping"
  /\ LET r == [req[c] EXCEPT !.calls = @ + 1, !.ret = [state |-> "value", cause |-> ""]]
     IN req' = [req EXCEPT ![c] =
                  Responded(r, SendSuccess(IF r.kind = "health"
                                             THEN HealthData("ok", "ok", nodeEnv)
                                           ELSE [status |-> "ready"],
                                           None, 200))]
  /\ UNCHANGED <<items, nextId, clock, hits, nodeEnv, proc>>

\* db.execute rejects: the controller's own catch answers 503.
PingFailed(c) ==
  /\ req[c].pc = "ping"
  /\ LET r == [req[c] EXCEPT !.calls = @ + 1,
                             !.ret = [state |-> "threw", cause |-> "store unreachable"]]
         data == IF r.kind = "health" THEN HealthData("error", "error", nodeEnv)
                 ELSE [status |-> "not ready"]
     IN req' = [req EXCEPT ![c] =
                  Responded(r, [NoResponse EXCEPT !.status = 503, !.shape = "single",
                                                  !.data = <<data>>])]
  /\ UNCHANGED <<items, nextId, clock, hits, nodeEnv, proc>>

\* The whole chain on one connection, over the empty store.
ChainNext ==
  \/ JsonParseFailed(1)
  \/ RateLimited(1)
  \/ WindowReset
  \/ GetHealth(1) /\ Admit
  \/ GetReadiness(1) /\ Admit
  \/ GetLiveness(1) /\ Admit
  \/ PingOk(1)
  \/ PingFailed(1)
  \/ GetItemById(1) /\ Admit
  \/ ExecSelectById(1) /\ UNCHANGED chainVars
  \/ StoreError(1) /\ UNCHANGED chainVars
  \/ Close(1) /\ UNCHANGED chainVars

ChainSpec == ChainInit /\ [][ChainNext]_vars

\* ---------------------------------------------------- concurrent requests
\* The row a first POST /items {name: "Ab"} has stored.
FirstRow == [id |-> 1, name |-> <<"A", "b">>, createdAt |-> 0]

ConcInit ==
  /\ items = {FirstRow}
  /\ nextId = 2
  /\ clock = 0
  /\ req = [c \in Conns |-> Idle]
  /\ hits = 0
  /\ nodeEnv = "production"
  /\ proc = Running

\* Two connections, each with one PATCH or DELETE in flight: a handler runs
\* up to its await, the store executes the statements one at a time in any
\* order, and the two responses stay to be compared.
ConcNext ==
  \/ UpdateItem(1) /\ UNCHANGED chainVars
  \/ UpdateItem(2) /\ UNCHANGED chainVars
  \/ DeleteItem(1) /\ UNCHANGED chainVars
  \/ DeleteItem(2) /\ UNCHANGED chainVars
  \/ ExecUpdate(1) /\ UNCHANGED chainVars
  \/ ExecUpdate(2) /\ UNCHANGED chainVars
  \/ ExecDelete(1) /\ UNCHANGED chainVars
  \/ ExecDelete(2) /\ UNCHANGED chainVars
  \/ StoreError(1) /\ UNCHANGED chainVars
  \/ StoreError(2) /\ UNCHANGED chainVars

ConcSpec == ConcInit /\ [][ConcNext]_vars

\* ------------------------------------------- a list request among writes
\* Connection 1 serves GET /items; connection 2 serves one POST, PATCH or
\* DELETE. getAllItemsService awaits the data query and then the count
\* query, two statements outside any transaction, so the store may execute
\* the statement of connection 2 before, between or after them.
ListRaceNext ==
  \/ GetItems(1) /\ UNCHANGED chainVars
  \/ ExecDataQuery(1) /\ UNCHANGED chainVars
  \/ ExecCountQuery(1) /\ UNCHANGED chainVars
  \/ CreateItem(2) /\ UNCHANGED chainVars
  \/ ExecInsert(2) /\ UNCHANGED chainVars
  \/ UpdateItem(2) /\ UNCHANGED chainVars
  \/ ExecUpdate(2) /\ UNCHANGED chainVars
  \/ DeleteItem(2) /\ UNCHANGED chainVars
  \/ ExecDelete(2) /\ UNCHANGED chainVars

ListRaceSpec == ConcInit /\ [][ListRaceNext]_vars

\* ------------------------------------------------------------- shutdown
MaxSignals == 2

\* process.exit has been called.
Exited == proc.exit # None

\* The connections of the server that have not ended.
Open == {c \in Conns : req[c].pc # "idle"}

\* Faulty variant: the close callback runs as soon as the server stops
\* listening, whatever connections remain.
ServerClosedEarly ==
  /\ ~Exited
  /\ ~proc.listening /\ proc.callbacks > 0
  /\ proc' = [proc EXCEPT !.exit = Some(0)]
  /\ UNCHANGED <<items, nextId, clock, req, hits, nodeEnv>>

\* shutdown(), the handler of SIGTERM and SIGINT: server.close(callback)
\* stops the server from accepting connections and registers the callback
\* for the server's 'close' event; setTimeout arms the 10 s timer. A later
\* signal runs it again: one more callback, one more timer.
Shutdown(sig) ==
  /\ ~Exited
  /\ proc.signals < MaxSignals
  /\ proc' = [proc EXCEPT !.listening = FALSE,
                          !.signals = @ + 1,
                          !.callbacks = @ + 1,
                          !.timers = @ + 1,
                          !.pending = IF proc.signals = 0 THEN Cardinality(Open) ELSE @]
  /\ UNCHANGED <<items, nextId, clock, req, hits, nodeEnv>>

\* The server's 'close' event: it is closed and its connections have ended;
\* the callback of the first server.close runs and calls process.exit(0).
ServerClosed ==
  /\ ~Exited
  /\ ~proc.listening /\ proc.callbacks > 0
  /\ Open = {}
  /\ proc' = [proc EXCEPT !.exit = Some(0)]
  /\ UNCHANGED <<items, nextId, clock, req, hits, nodeEnv>>

\* The 10 s timer fires: process.exit(1).
ForceExit ==
  /\ ~Exited
  /\ proc.timers > 0
  /\ proc' = [proc EXCEPT !.exit = Some(1)]
  /\ UNCHANGED <<items, nextId, clock, req, hits, nodeEnv>>

\* The server takes a new connection.
Accepting == ~Exited /\ proc.listening

\* The event loop still runs handlers and store callbacks.
Alive == ~Exited

ShutdownNext ==
  \/ Shutdown("SIGTERM")
  \/ Shutdown("SIGINT")
  \/ ServerClosed
  \/ ForceExit
  \/ Accepting /\ GetItemById(1) /\ UNCHANGED chainVars
  \/ Accepting /\ GetItemById(2) /\ UNCHANGED chainVars
  \/ Alive /\ ExecSelectById(1) /\ UNCHANGED chainVars
  \/ Alive /\ ExecSelectById(2) /\ UNCHANGED chainVars
  \/ Alive /\ Close(1) /\ UNCHANGED chainVars
  \/ Alive /\ Close(2) /\ UNCHANGED chainVars

\* Timers of the event loop fire: once armed, the 10 s timer stays due until
\* the process exits.
ShutdownSpec == ConcInit /\ [][ShutdownNext]_vars /\ WF_vars(ForceExit)

\* ================================================================ claims
\* The service has been called for the request on connection c.
ServiceCalled(c) == \E i \in 1..Len(req[c].steps) : req[c].steps[i] = "service"

\* The list requests whose data query has been built.
ListPlanned(c) == req[c].kind \in {"list", "svcList"} /\ req[c].plan.column.kind # "none"

\* C1: every paginated response carries totalPages = ceil(totalItems / limit),
\* the least whole number of pages of size limit that hold totalItems rows:
\* 0 for totalItems = 0, and 10 for totalItems = 95 with limit = 10.
C1_TotalPagesIsCeiling ==
  /\ \A c \in Conns :
       req[c].res.shape = "list" =>
         LET m == Get(req[c].res.meta)
         IN /\ m.totalItems >= 0 /\ m.limit >= 1
            /\ m.totalPages >= 0
            /\ m.totalPages * m.limit >= m.totalItems
            /\ (m.totalPages - 1) * m.limit < m.totalItems
            /\ (m.totalItems = 0 => m.totalPages = 0)
  /\ TotalPages(95, 10) = 10
  /\ TotalPages(0, 10) = 0

\* A paginated response whose last page is not full.
C1_Witness ==
  \E c \in Conns :
    /\ req[c].res.shape = "list"
    /\ Get(req[c].res.meta).totalItems % Get(req[c].res.meta).limit # 0
    /\ Get(req[c].res.meta).totalPages = 1

\* C2: the offset of the data query is the number of rows on the pages before
\* the requested one, (page - 1) * limit: 0 for page 1, 40 for page 3 with
\* limit 20, and a page beyond the stored rows is not cut down.
C2_OffsetLaw ==
  /\ \A c \in Conns :
       ListPlanned(c) =>
         /\ req[c].params.page >= 1
         /\ req[c].plan.offset + req[c].plan.limit = req[c].params.page * req[c].params.limit
         /\ (req[c].params.page = 1 => req[c].plan.offset = 0)
         /\ req[c].plan.limit = req[c].params.limit
  /\ Offset(3, 20) = 40

\* Page 3 with limit 2 is asked of a store that holds fewer than 4 rows.
C2_Witness ==
  \E c \in Conns :
    /\ req[c].kind = "list" /\ req[c].pc = "count"
    /\ req[c].query.page = Some(T3) /\ req[c].query.limit = Some(T2)
    /\ req[c].plan.offset = 4
    /\ Cardinality(items) < 4

StorageColumns ==
  {[kind |-> "column", name |-> n] : n \in {"id", "name", "createdAt"}}

\* C3: the ORDER BY operand of every list query is one of the storage columns
\* id, name, created_at; a sort outside these three keys orders by id in the
\* requested direction and the service raises no error for it.
C3_SortWhitelist ==
  \A c \in Conns :
    ListPlanned(c) =>
      /\ req[c].plan.column \in StorageColumns
      /\ (req[c].params.sort \notin {"id", "name", "created_at"} =>
            /\ req[c].plan.column = [kind |-> "column", name |-> "id"]
            /\ req[c].plan.dir = req[c].params.order
            /\ req[c].ret.cause # "order by")

\* sub occurs in s as a run of consecutive characters.
Contains(s, sub) ==
  \E i \in 1..(Len(s) - Len(sub) + 1) : SubSeq(s, i, i + Len(sub) - 1) = sub

LiteralMatches(rows, q) == {row \in rows : Contains(Lower(row.name), Lower(q))}

RowsOf(s) == {s[i] : i \in 1..Len(s)}

\* C4: with the store unchanged during the request, a list response for a
\* non-empty q holds only rows whose name contains q as a literal substring,
\* case-insensitively, and total counts exactly those rows of the store; for
\* q absent or empty total counts all rows.
C4_FilterScoping ==
  \A c \in Conns :
    (req[c].kind = "list" /\ req[c].res.shape = "list") =>
      LET q == req[c].params.q
          m == Get(req[c].res.meta)
      IN IF q # None /\ Get(q) # <<>>
           THEN /\ RowsOf(req[c].res.data) \subseteq LiteralMatches(items, Get(q))
                /\ m.totalItems = Cardinality(LiteralMatches(items, Get(q)))
         ELSE m.totalItems = Cardinality(items)

\* C5: a list request whose query is empty passes validation with page 1,
\* limit 10, sort created_at, order desc and q undefined; in a partly filled
\* query every missing field takes its own default whatever the others hold.
C5_Defaults ==
  \A c \in Conns :
    req[c].kind = "list" /\ req[c].pc # "idle" =>
      /\ (req[c].query = EmptyQuery =>
            /\ ServiceCalled(c)
            /\ req[c].params =
                 [page |-> 1, limit |-> 10, sort |-> "created_at", order |-> "desc", q |-> None])
      /\ (ServiceCalled(c) =>
            /\ (req[c].query.page = None => req[c].params.page = 1)
            /\ (req[c].query.limit = None => req[c].params.limit = 10)
            /\ (req[c].query.sort = None => req[c].params.sort = "created_at")
            /\ (req[c].query.order = None => req[c].params.order = "desc")
            /\ (req[c].query.q = None => req[c].params.q = None))

\* A query that supplies only page has reached the service with the other
\* four defaults.
C5_Witness ==
  \E c \in Conns :
    /\ req[c].kind = "list" /\ req[c].pc = "data"
    /\ req[c].query = [EmptyQuery EXCEPT !.page = Some(T2)]
    /\ req[c].params.page = 2 /\ req[c].params.limit = 10

\* The value of text s read as a number is no integer, or lies outside lo..hi.
NotIntegerIn(s, lo, hi) ==
  LET n == ToNumber(s)
  IN n.kind \in {"nan", "frac"} \/ (n.kind = "int" /\ (n.v < lo \/ n.v > hi))
     \/ (n.kind = "bigint" /\ (n.neg \/ hi < Int4Max))

BadListQuery(query) ==
  \/ query.page # None /\ NotIntegerIn(Get(query.page), 1, Int4Max)
  \/ query.limit # None /\ NotIntegerIn(Get(query.limit), 1, 100)
  \/ query.order # None /\ Get(query.order) \notin {"asc", "desc"}

\* The request on connection c was answered 400 without reaching the service
\* or the store.
RefusedUnserved(c) ==
  /\ req[c].pc = "done"
  /\ req[c].res.status = 400 /\ req[c].res.success = FALSE
  /\ req[c].calls = 0 /\ ~ServiceCalled(c)

BadName(name) == name = None \/ Get(name).t # "string" \/ Get(name).s = <<>>

NamesName(issues) == \E i \in 1..Len(issues) : issues[i].path = <<"name">>

\* C8: POST /items whose body has no name, a name that is no string or the
\* empty name is answered 400 with success false and an errors entry whose
\* path is name, and the rows of the store stay as they were.
C8_CreateRejection ==
  /\ [](\A c \in Conns :
          (req[c].kind = "create" /\ BadName(req[c].rawBody.name)) =>
             /\ RefusedUnserved(c)
             /\ req[c].res.errors # None
             /\ NamesName(Get(req[c].res.errors)))
  /\ [][\A c \in Conns :
          (req'[c].kind = "create" /\ BadName(req'[c].rawBody.name)) =>
             (items' = items /\ nextId' = nextId)]_vars

\* POST with the empty name was refused while the store holds a row.
C8_Witness ==
  \E c \in Conns :
    /\ req[c].kind = "create" /\ req[c].rawBody.name = Some(JStr(<<>>))
    /\ req[c].res.status = 400
    /\ items # {}

\* C9: GET, PATCH and DELETE /items/:id with an id that is no integer or is
\* not positive are answered 400 and the store is neither read nor written;
\* an id that is a positive integer reaches the service as that integer.
C9_IdRejection ==
  /\ [](\A c \in Conns :
          (req[c].kind \in {"get", "update", "delete"} /\ req[c].pc # "idle") =>
             /\ (Get(req[c].rawId) \in {T0, TNeg, THalf, TAbc} => RefusedUnserved(c))
             /\ (ServiceCalled(c) =>
                   /\ (Get(req[c].rawId) = T1 => req[c].id = IntNum(1))
                   /\ (Get(req[c].rawId) = T2 => req[c].id = IntNum(2))
                   /\ (Get(req[c].rawId) = T3 => req[c].id = IntNum(3))
                   /\ (Get(req[c].rawId) = TBig =>
                         req[c].id.kind = "bigint" /\ ~req[c].id.neg)))
  /\ [][\A c \in Conns :
          (req'[c].kind \in {"get", "update", "delete"} /\ req'[c].rawId # None
           /\ Get(req'[c].rawId) \in {T0, TNeg, THalf, TAbc}) => items' = items]_vars

\* DELETE /items/0 was refused while the store holds a row.
C9_Witness ==
  \E c \in Conns :
    /\ req[c].kind = "delete" /\ req[c].rawId = Some(T0)
    /\ req[c].res.status = 400 /\ req[c].calls = 0
    /\ items # {}

ValidId(rawId) == rawId # None /\ ParamIdIssues(Get(rawId)) = <<>>

\* C10: a GET, a PATCH with a valid body or a DELETE that names a valid id
\* with no stored row ends, the store being reachable, with 404, success
\* false and the message "Item with ID <id> not found", the service having
\* returned undefined, and leaves the store unchanged.
C10_NotFound ==
  [][\A c \in Conns :
       (/\ req[c].pc # "done" /\ req'[c].pc = "done"
        /\ req'[c].kind \in {"get", "update", "delete"}
        /\ ValidId(req'[c].rawId)
        /\ (req'[c].kind = "update" => UpdateItemIssues(req'[c].rawBody) = <<>>)
        /\ FindById(items, ToNumber(Get(req'[c].rawId))) = {}
        /\ req'[c].ret.cause # "store unreachable")
       => (/\ req'[c].res.status = 404
           /\ req'[c].res.success = FALSE
           /\ req'[c].res.message
                = Some(Msg("Item with ID % not found", ToNumber(Get(req'[c].rawId)).v))
           /\ req'[c].ret.state = "undefined"
           /\ items' = items)]_vars

Ids(rows) == {row.id : row \in rows}

\* The rows of the store whose id is the one the request on connection c names.
Stored(c) == {row \in items : req[c].id.kind = "int" /\ row.id = req[c].id.v}

\* This step gives the store's answer to the statement of the kind request
\* on connection c, the store being reachable.
Answered(c, kind) ==
  /\ req[c].kind = kind /\ req[c].pc = "one" /\ req'[c].pc = "done"
  /\ req'[c].ret.cause # "store unreachable"

\* C11: DELETE /items/:id on a stored id returns 200 with the row as it was
\* just before the deletion and removes that row; an id once handed out is
\* never handed out again, so a second DELETE of it and a later GET of it
\* find no row and return 404.
C11_DeleteSnapshot ==
  /\ [](Ids(items) \subseteq 1..(nextId - 1))
  /\ [][/\ nextId' >= nextId
        /\ Ids(items') \ Ids(items) \subseteq {nextId}
        /\ \A c \in Conns :
             /\ (Answered(c, "delete") /\ Stored(c) # {}) =>
                  /\ req'[c].res.status = 200 /\ req'[c].res.success
                  /\ \E row \in Stored(c) : req'[c].res.data = <<row>>
                  /\ items' = items \ Stored(c)
             /\ ((Answered(c, "delete") \/ Answered(c, "get"))
                 /\ req[c].id.kind = "int" /\ Stored(c) = {}) =>
                  /\ req'[c].res.status = 404
                  /\ items' = items]_vars

\* Id 1 was handed out and its row deleted; a further DELETE of it got 404.
C11_Witness ==
  \E c \in Conns :
    /\ req[c].kind = "delete" /\ req[c].pc = "done" /\ req[c].id = IntNum(1)
    /\ req[c].res.status = 404
    /\ nextId > 1 /\ 1 \notin Ids(items)

\* C12: POST /items with name n returns a row with name n and an id the
\* store did not hold before, and stores that row; ids are unique; a row
\* stays in the store as it is until an update or a delete of its id; and a
\* GET answered 200 returns the stored row of the id asked for.
C12_CreateThenGet ==
  /\ [](/\ \A a, b \in items : a.id = b.id => a = b
        /\ \A c \in Conns :
             (req[c].kind = "get" /\ req[c].pc = "done" /\ req[c].res.status = 200) =>
               \E row \in items : req[c].res.data = <<row>> /\ row.id = req[c].id.v)
  /\ [][/\ \A c \in Conns :
             Answered(c, "create") =>
               /\ req'[c].res.status = 201
               /\ \E row \in items' \ items :
                    /\ req'[c].res.data = <<row>>
                    /\ row.name = Get(req[c].rawBody.name).s
                    /\ row.id \notin Ids(items)
                    /\ items' = items \cup {row}
        /\ \A row \in items :
             \/ row \in items'
             \/ \E c \in Conns :
                  (Answered(c, "update") \/ Answered(c, "delete")) /\ Stored(c) = {row}]_vars

\* The row of name "Ab" created with id 1 is read back by GET /items/1.
C12_Witness ==
  \E c \in Conns :
    /\ req[c].kind = "get" /\ req[c].pc = "done" /\ req[c].res.status = 200
    /\ req[c].res.data[1].id = 1 /\ req[c].res.data[1].name = <<"A", "b">>

\* C13: PATCH /items/:id on a stored id with a non-empty name m returns 200
\* with the row carrying name m and its old id and createdAt, and that row
\* replaces the old one in the store (so a later GET reads name m); PATCH
\* with the empty name is answered 400 and leaves the store as it was.
C13_Patch ==
  /\ [](\A c \in Conns :
          (req[c].kind = "update" /\ req[c].rawBody.name = Some(JStr(<<>>))) =>
            RefusedUnserved(c))
  /\ [][\A c \in Conns :
          /\ (req'[c].kind = "update" /\ req'[c].rawBody.name = Some(JStr(<<>>))) =>
               items' = items
          /\ (Answered(c, "update") /\ Stored(c) # {}) =>
               /\ req'[c].res.status = 200 /\ req'[c].res.success
               /\ \E old \in Stored(c) :
                    LET new == [id |-> old.id, name |-> Get(req[c].rawBody.name).s,
                                createdAt |-> old.createdAt]
                    IN /\ req'[c].res.data = <<new>>
                       /\ new.name # <<>>
                       /\ items' = (items \ {old}) \cup {new}]_vars

\* PATCH /items/1 {name: "b"} has renamed the row created as "Ab".
C13_Witness ==
  \E c \in Conns :
    /\ req[c].kind = "update" /\ req[c].pc = "done" /\ req[c].res.status = 200
    /\ req[c].res.data[1].name = <<"b">>
    /\ [id |-> 1, name |-> <<"b">>, createdAt |-> req[c].res.data[1].createdAt] \in items
    /\ nextId = 2

\* C14: PATCH /items/:id on a stored id with the empty object as body is
\* answered 200 with the stored row, and the store stays as it was.
C14_EmptyPatchNoChange ==
  [][\A c \in Conns :
       (/\ req[c].pc # "done" /\ req'[c].pc = "done"
        /\ req'[c].kind = "update"
        /\ req'[c].rawBody = EmptyBody
        /\ ValidId(req'[c].rawId)
        /\ FindById(items, ToNumber(Get(req'[c].rawId))) # {})
       => (/\ req'[c].res.status = 200 /\ req'[c].res.success
           /\ \E row \in items : req'[c].res.data = <<row>>
           /\ items' = items)]_vars

\* The errors array has an entry for the field.
Reports(errors, field) == \E i \in 1..Len(errors) : errors[i].path = <<field>>

\* C17: a request refused by validation is answered 400 with an errors
\* array that has an entry for every invalid input of the request: for
\* GET /items every invalid query field, for PATCH /items/:id the path id
\* and the body's name alike.
C17_AllViolationsReported ==
  \A c \in Conns :
    (req[c].pc = "done" /\ req[c].res.status = 400) =>
      /\ req[c].res.errors # None
      /\ LET errors == Get(req[c].res.errors)
         IN /\ req[c].kind = "list" =>
                 /\ (PageIssues(req[c].query.page) # <<>> => Reports(errors, "page"))
                 /\ (LimitIssues(req[c].query.limit) # <<>> => Reports(errors, "limit"))
                 /\ (OrderIssues(req[c].query.order) # <<>> => Reports(errors, "order"))
            /\ req[c].kind = "update" =>
                 /\ (ParamIdIssues(Get(req[c].rawId)) # <<>> => Reports(errors, "id"))
                 /\ (UpdateItemIssues(req[c].rawBody) # <<>> => Reports(errors, "name"))

ItemKinds == {"list", "get", "create", "update", "delete"}

\* C18: an item request whose service call returned a value is answered
\* with success true and a fixed status, 201 for POST /items and 200 for the
\* others; the list response, and no other, carries meta, whose page and
\* limit are the validated values of the request.
C18_SuccessEnvelope ==
  \A c \in Conns :
    (req[c].kind \in ItemKinds /\ req[c].pc = "done") =>
      /\ (req[c].ret.state = "value" =>
            /\ req[c].res.success
            /\ req[c].res.status = IF req[c].kind = "create" THEN 201 ELSE 200)
      /\ (req[c].res.success => req[c].ret.state = "value")
      /\ (req[c].res.meta # None <=> (req[c].kind = "list" /\ req[c].res.success))
      /\ (req[c].kind = "list" /\ req[c].res.success =>
            LET m == Get(req[c].res.meta)
                query == req[c].query
            IN /\ DOMAIN m = {"page", "limit", "totalItems", "totalPages"}
               /\ m.page = (IF query.page = None THEN 1 ELSE ToNumber(Get(query.page)).v)
               /\ m.limit = (IF query.limit = None THEN 10 ELSE ToNumber(Get(query.limit)).v)
               /\ PaginationIssues(query) = <<>>)

\* POST /items was answered 201, and earlier rows are stored.
C18_Witness ==
  \E c \in Conns :
    /\ req[c].kind = "create" /\ req[c].pc = "done"
    /\ req[c].res.status = 201 /\ req[c].res.success
    /\ Cardinality(items) = 2

\* The error of the request on connection c was passed to errorHandler.
Errored(c) == \E i \in 1..Len(req[c].steps) : req[c].steps[i] = "errorHandler"

InternalServerError == Some(Msg("Internal Server Error", 0))

\* C15: every error passed to errorHandler, wherever in the chain it was
\* raised, is answered with a JSON envelope whose success is false and which
\* is one of: 400 "Validation Error" with errors; the AppError's status and
\* message without errors; 500 "Internal Server Error" without errors, the
\* last for every error that is neither of the two.
C15_ErrorClassification ==
  \A c \in Conns :
    (req[c].pc = "done" /\ Errored(c)) =>
      LET res == req[c].res
      IN /\ res.shape = "none" /\ res.success = FALSE
         /\ \/ /\ res.status = 400 /\ res.message = Some(Msg("Validation Error", 0))
               /\ res.errors # None
            \/ /\ res.status = 404 /\ res.errors = None
               /\ res.message = Some(Msg("Item with ID % not found", req[c].id.v))
            \/ res.status = 500 /\ res.message = InternalServerError /\ res.errors = None
         /\ (req[c].ret.state = "threw" => res.status = 500)

\* C16: no response to a failed request shows a stack trace, whatever
\* NODE_ENV is, and every response to an unexpected error has the one body
\* {success: false, message: "Internal Server Error"}, so that two of them
\* never differ.
C16_NoStackLeak ==
  \A c \in Conns :
    (req[c].pc = "done" /\ req[c].res.status >= 400) =>
      /\ req[c].res.stack = None
      /\ (req[c].res.status = 500 =>
            /\ req[c].res.message = InternalServerError
            /\ req[c].res.errors = None /\ req[c].res.data = <<>>)

\* The body's data object of a health response.
HealthBody(c) == req[c].res.data[1]

\* What the three health controllers answer on connection c.
HealthAnswers(c) ==
  /\ (req[c].kind = "live" =>
        /\ req[c].res.status = 200 /\ req[c].res.success
        /\ HealthBody(c).status = "alive"
        /\ req[c].calls = 0)
  /\ (req[c].kind = "health" =>
        IF req[c].ret.state = "value"
          THEN /\ req[c].res.status = 200 /\ req[c].res.success
               /\ HealthBody(c).status = "ok" /\ HealthBody(c).database = "ok"
        ELSE /\ req[c].res.status = 503 /\ ~req[c].res.success
             /\ HealthBody(c).status = "error" /\ HealthBody(c).database = "error"
             /\ ~Errored(c))
  /\ (req[c].kind = "ready" =>
        IF req[c].ret.state = "value"
          THEN /\ req[c].res.status = 200 /\ req[c].res.success
               /\ HealthBody(c).status = "ready"
        ELSE /\ req[c].res.status = 503 /\ ~req[c].res.success
             /\ HealthBody(c).status = "not ready"
             /\ ~Errored(c))

\* C20 as stated: every GET /health, /health/ready and /health/live is
\* answered by its controller: 200 exactly when the ping succeeds, 503
\* without the error handler when it fails, and /health/live 200 "alive"
\* without a ping in every state.
C20_HealthProbes ==
  \A c \in Conns :
    (req[c].kind \in {"health", "ready", "live"} /\ req[c].pc = "done") => HealthAnswers(c)

\* C20 amended: the same for every health request the rate limiter lets
\* through; only /health and /health/ready ever ping the store.
C20_AdmittedHealthProbes ==
  \A c \in Conns :
    /\ (req[c].kind \in {"health", "ready", "live"} /\ req[c].pc = "done"
        /\ req[c].steps # <<"limiter">>) => HealthAnswers(c)
    /\ (req[c].pc = "ping" => req[c].kind \in {"health", "ready"})
    /\ (req[c].kind = "live" => req[c].calls = 0)

\* GET /health was answered 503 with checks.database "error".
C20_Witness ==
  \E c \in Conns :
    /\ req[c].kind = "health" /\ req[c].pc = "done"
    /\ req[c].res.status = 503 /\ HealthBody(c).database = "error"

\* The request on connection c updates (with a name) or deletes the id of
\* FirstRow and the store has answered its statement.
Raced(c) ==
  /\ req[c].kind \in {"update", "delete"} /\ req[c].pc = "done"
  /\ req[c].id = IntNum(FirstRow.id)
  /\ req[c].ret.state \in {"value", "undefined"}

\* What the request on connection c, run alone on the rows, answers and
\* leaves: <<status, returned rows, rows left>>.
Alone(c, rows) ==
  LET hit == {row \in rows : row.id = FirstRow.id}
      new == {[row EXCEPT !.name = Get(req[c].rawBody.name).s] : row \in hit}
  IN IF hit = {} THEN [status |-> 404, returned |-> {}, left |-> rows]
     ELSE IF req[c].kind = "delete"
       THEN [status |-> 200, returned |-> hit, left |-> rows \ hit]
     ELSE [status |-> 200, returned |-> new, left |-> (rows \ hit) \cup new]

\* The responses on a and b and the store are those of a's request run
\* before b's.
SerialOrder(a, b) ==
  LET first == Alone(a, {FirstRow})
      second == Alone(b, first.left)
  IN /\ req[a].res.status = first.status /\ RowsOf(req[a].res.data) = first.returned
     /\ req[b].res.status = second.status /\ RowsOf(req[b].res.data) = second.returned
     /\ items = second.left

\* C19: two concurrent requests that each update (with a name) or delete
\* the same stored id end, in every interleaving, with the responses and
\* the store of one of their two serial orders: two deletes give one 200
\* with the row and one 404; an update and a delete give update 200 and
\* delete 200 with the updated row, or delete 200 with the old row and
\* update 404; two updates give 200 twice and the store holds the name of
\* one of them.
C19_SerialOutcomes ==
  (Raced(1) /\ Raced(2)) =>
    /\ SerialOrder(1, 2) \/ SerialOrder(2, 1)
    /\ (req[1].kind = "delete" /\ req[2].kind = "delete" =>
          /\ {req[1].res.status, req[2].res.status} = {200, 404}
          /\ items = {})
    /\ (req[1].kind = "update" /\ req[2].kind = "update" =>
          /\ req[1].res.status = 200 /\ req[2].res.status = 200
          /\ \E c \in Conns : items = RowsOf(req[c].res.data))
    /\ (req[1].kind = "update" /\ req[2].kind = "delete" =>
          /\ req[2].res.status = 200 /\ items = {}
          /\ \/ req[1].res.status = 200 /\ req[2].res.data = req[1].res.data
             \/ req[1].res.status = 404 /\ req[2].res.data = <<FirstRow>>)

\* PATCH {name: "b"} and DELETE of id 1 were in flight together; the update
\* came first and the delete returned the renamed row.
C19_Witness ==
  /\ Raced(1) /\ Raced(2)
  /\ req[1].kind = "update" /\ req[1].res.status = 200
  /\ req[2].kind = "delete" /\ req[2].res.status = 200
  /\ req[2].res.data[1].name = <<"b">>
  /\ items = {}

\* The orders in which an item handler takes its steps.
StepOrders ==
  {<<"validate">>, <<"validate", "errorHandler">>, <<"validate", "service">>,
   <<"validate", "service", "send">>, <<"validate", "service", "errorHandler">>}

\* Every input of the request on connection c satisfies its schema.
InputsValid(c) ==
  CASE req[c].kind = "list" -> PaginationIssues(req[c].query) = <<>>
    [] req[c].kind = "create" -> InsertItemIssues(req[c].rawBody) = <<>>
    [] req[c].kind = "update" ->
         ParamIdIssues(Get(req[c].rawId)) = <<>> /\ UpdateItemIssues(req[c].rawBody) = <<>>
    [] OTHER -> ParamIdIssues(Get(req[c].rawId)) = <<>>

\* C21: an item handler validates, then calls the service, then checks for
\* an absent result, then formats: the service is called only after every
\* input (for PATCH the id and the body) has passed validation, a request
\* answered 400 has sent nothing to the store and changed no row, and after
\* an absent result the error handler answers, never the success formatter.
C21_StepOrder ==
  /\ [](\A c \in Conns :
          (req[c].kind \in ItemKinds /\ req[c].pc # "idle") =>
            /\ req[c].steps \in StepOrders
            /\ (ServiceCalled(c) => InputsValid(c))
            /\ (req[c].calls > 0 => ServiceCalled(c))
            /\ (req[c].res.status = 400 => req[c].calls = 0 /\ ~ServiceCalled(c))
            /\ (req[c].ret.state = "undefined" =>
                  /\ req[c].steps = <<"validate", "service", "errorHandler">>
                  /\ ~req[c].res.success))
  /\ [][\A c \in Conns :
          (req'[c].kind \in ItemKinds /\ req'[c].res.status = 400) => items' = items]_vars

\* PATCH /items/1 with the empty name was refused before the service while
\* the store holds the row.
C21_Witness ==
  \E c \in Conns :
    /\ req[c].kind = "update" /\ req[c].rawId = Some(T1)
    /\ req[c].rawBody.name = Some(JStr(<<>>))
    /\ req[c].steps = <<"validate", "errorHandler">>
    /\ 1 \in Ids(items)

\* How often the step occurs in the request's steps.
Count(steps, step) == Cardinality({i \in 1..Len(steps) : steps[i] = step})

Writes(c) == Count(req[c].steps, "send") + Count(req[c].steps, "errorHandler")

\* C22: a request to an item handler gets exactly one response, written by
\* the success formatter or by errorHandler, never by both and never by
\* neither; what a handler throws or the service rejects with (validation,
\* not found, store failure) reaches errorHandler once.
C22_ExactlyOneResponse ==
  \A c \in Conns :
    (req[c].kind \in ItemKinds /\ req[c].pc # "idle") =>
      /\ Writes(c) <= 1
      /\ (req[c].pc = "done" <=> Writes(c) = 1)
      /\ (req[c].pc = "done" =>
            /\ req[c].res.status # 0
            /\ (req[c].res.success <=> Count(req[c].steps, "send") = 1)
            /\ (req[c].ret.state \in {"threw", "undefined"} \/ ~ServiceCalled(c)
                  => Count(req[c].steps, "errorHandler") = 1))

\* The store failed under DELETE /items/1 and errorHandler answered 500.
C22_Witness ==
  \E c \in Conns :
    /\ req[c].kind = "delete" /\ req[c].pc = "done"
    /\ req[c].ret = [state |-> "threw", cause |-> "store unreachable"]
    /\ req[c].steps = <<"validate", "service", "errorHandler">>
    /\ req[c].res.status = 500

\* Row a comes strictly before row b under the sort key and direction.
StrictlyBefore(a, b, sort, dir) ==
  LET less(x, y) == CASE sort = "id" -> x.id < y.id
                      [] sort = "name" -> ~TextLeq(y.name, x.name)
                      [] sort = "created_at" -> x.createdAt < y.createdAt
  IN IF dir = "asc" THEN less(a, b) ELSE less(b, a)

\* The store has answered the data query of the list request on connection c.
DataFetched(c) ==
  /\ req[c].kind \in {"list", "svcList"} /\ req[c].pc \in {"count", "done"}
  /\ req[c].calls > 0

\* C24: for sort in {id, name, created_at} the rows getAllItemsService gets
\* are ordered by the column id, name, createdAt: no row comes after a row
\* that is strictly greater (order asc) or strictly smaller (order desc) in
\* that column; rows with equal keys come as the store gives them.
C24_SortOrder ==
  \A c \in Conns :
    (DataFetched(c) /\ req[c].params.sort \in {"id", "name", "created_at"}) =>
      /\ req[c].plan.column.name =
           (CASE req[c].params.sort = "id" -> "id"
              [] req[c].params.sort = "name" -> "name"
              [] req[c].params.sort = "created_at" -> "createdAt")
      /\ \A i, j \in 1..Len(req[c].rows) :
           i < j => ~StrictlyBefore(req[c].rows[j], req[c].rows[i],
                                    req[c].params.sort, req[c].params.order)

\* Two rows sorted by name (descending, the default): the row created first
\* comes first though its id is the smaller one.
C24_Witness ==
  \E c \in Conns :
    /\ DataFetched(c) /\ req[c].params.sort = "name" /\ req[c].params.order = "desc"
    /\ Len(req[c].rows) = 2
    /\ req[c].rows[1].id < req[c].rows[2].id
    /\ req[c].rows[1].name # req[c].rows[2].name

\* C26: every stored row has a name of length >= 1, whatever POST and PATCH
\* requests have been served: a request with an empty or missing name for
\* POST, or an empty name for PATCH, is refused and stores nothing.
C26_NamesNonEmpty ==
  /\ \A row \in items : Len(row.name) >= 1
  /\ \A c \in Conns :
       (/\ req[c].kind \in {"create", "update"}
        /\ req[c].rawBody.name # None
        /\ Get(req[c].rawBody.name) = JStr(<<>>)) => RefusedUnserved(c)

\* Two rows are stored, one of them renamed, and POST with the empty name
\* was refused.
C26_Witness ==
  /\ Cardinality(items) = 2
  /\ \E row \in items : row.id = 1 /\ row.name = <<"b">>
  /\ \E c \in Conns :
       /\ req[c].kind = "create" /\ req[c].rawBody.name = Some(JStr(<<>>))
       /\ req[c].res.status = 400

\* The request on connection c is answered in this step.
Ends(c) == req[c].pc # "done" /\ req'[c].pc = "done"

\* C27: a write touches the addressed row only: create adds one row and
\* keeps the others; update and delete of id i keep every row of another
\* id; getById and list change no row; a request answered 400, 404 or 500
\* changes no row.
C27_Frame ==
  [][/\ (items' # items =>
          \E c \in Conns : Ends(c) /\ req'[c].res.status \in {200, 201})
     /\ \A c \in Conns :
       /\ (Answered(c, "create") /\ req'[c].res.success) =>
            \E row \in items' : row \notin items /\ items' = items \cup {row}
       /\ (Answered(c, "update") \/ Answered(c, "delete")) =>
            /\ \A row \in items : row.id # req[c].id.v => row \in items'
            /\ \A row \in items' : row.id # req[c].id.v => row \in items
            /\ Cardinality(items') <= Cardinality(items)
       /\ (req'[c] # req[c] /\ req'[c].kind \in {"get", "list", "svcList"}) => items' = items
       /\ (Ends(c) /\ req'[c].res.status \in {400, 404, 500}) => items' = items]_vars

\* PATCH /items/1 was answered 200 while the row of id 2 is stored.
C27_Witness ==
  \E c \in Conns :
    /\ req[c].kind = "update" /\ req[c].pc = "done" /\ req[c].res.status = 200
    /\ req[c].id = IntNum(1)
    /\ 2 \in Ids(items)

Max(a, b) == IF a >= b THEN a ELSE b

\* C28: with the store unchanged during the request, the data of a list
\* response is the rows at positions (page-1)*limit + 1 .. page*limit of
\* the filtered, sorted rows: it has min(limit, max(0, total - offset))
\* rows, each a matching row at its rank in the sort order; a page beyond
\* the data is answered 200 with no rows and totalItems and totalPages of
\* the whole matching set; sorted by id, the pages 1..totalPages hold every
\* matching row once.
C28_PageSlice ==
  \A c \in Conns :
    (req[c].kind = "list" /\ req[c].pc = "done" /\ req[c].res.success) =>
      LET m == Get(req[c].res.meta)
          data == req[c].res.data
          sort == req[c].params.sort
          dir == req[c].params.order
          matching == Matching(items, WhereClause(req[c].params.q))
          total == Cardinality(matching)
          offset == (m.page - 1) * m.limit
          byId == CHOOSE o \in Orderings(matching, [kind |-> "column", name |-> "id"], dir) : TRUE
          pageOf(p) == RowsOf(Slice(byId, m.limit, (p - 1) * m.limit))
      IN /\ req[c].res.status = 200
         /\ m.totalItems = total
         /\ m.totalPages = TotalPages(total, m.limit)
         /\ Len(data) = Min(m.limit, Max(0, total - offset))
         /\ Len(data) <= m.limit
         /\ RowsOf(data) \subseteq matching
         /\ \A i, j \in 1..Len(data) : i # j => data[i] # data[j]
         /\ (offset >= total => data = <<>>)
         /\ (sort \in {"id", "name", "created_at"} =>
               \A i \in 1..Len(data) :
                 /\ Cardinality({row \in matching : StrictlyBefore(row, data[i], sort, dir)})
                      <= offset + i - 1
                 /\ Cardinality({row \in matching : ~StrictlyBefore(data[i], row, sort, dir)})
                      >= offset + i)
         /\ (sort = "id" =>
               /\ RowsOf(data) = pageOf(m.page)
               /\ \A row \in matching :
                    Cardinality({p \in 1..m.totalPages : row \in pageOf(p)}) = 1)

\* Page 2 with limit 1 of two stored rows holds one row.
C28_Witness ==
  \E c \in Conns :
    /\ req[c].kind = "list" /\ req[c].pc = "done" /\ req[c].res.success
    /\ req[c].params.page = 2 /\ req[c].params.limit = 1
    /\ Cardinality(items) = 2
    /\ Len(req[c].res.data) = 1

\* C29: nothing is answered from state kept between requests: a getById
\* or list served after earlier requests were answered gives the rows as
\* the store holds them now, and every operation that gets an answer from
\* the service has made its own statements to the store (two for a list,
\* one for the others).
C29_NoCache ==
  \A c \in Conns :
    (req[c].kind \in ItemKinds /\ req[c].pc = "done") =>
      /\ (req[c].ret.state \in {"value", "undefined"} =>
            req[c].calls = IF req[c].kind = "list" THEN 2 ELSE 1)
      /\ (req[c].kind = "get" /\ req[c].ret.state \in {"value", "undefined"} =>
            IF req[c].id.v \in Ids(items)
              THEN req[c].res.status = 200 /\ RowsOf(req[c].res.data) \subseteq items
            ELSE req[c].res.status = 404)
      /\ (req[c].kind = "list" /\ req[c].res.success =>
            /\ RowsOf(req[c].res.data) \subseteq items
            /\ Get(req[c].res.meta).totalItems
                 = Cardinality(Matching(items, WhereClause(req[c].params.q))))

\* GET /items/1 after the row of id 1 was renamed to "b" returns that name.
C29_Witness ==
  \E c \in Conns :
    /\ req[c].kind = "get" /\ req[c].pc = "done" /\ req[c].res.status = 200
    /\ req[c].calls = 1
    /\ req[c].res.data[1].id = 1 /\ req[c].res.data[1].name = <<"b">>
    /\ nextId = 3

\* C25: stored ids are positive and pairwise distinct; an id once assigned
\* is never assigned again (every new id is at least the sequence's next
\* value, which never goes back); no request changes the id or createdAt of
\* a stored row: the ids change only by the one id a create adds or a
\* delete removes, and a row that stays keeps its createdAt; the keys id
\* and createdAt of a body are dropped by validation, so a PATCH that
\* carries them leaves both columns as they were.
C25_IdsStable ==
  /\ [](/\ \A row \in items : row.id >= 1 /\ row.id < nextId
        /\ \A a, b \in items : a.id = b.id => a = b
        /\ \A c \in Conns : req[c].body.id = None /\ req[c].body.createdAt = None)
  /\ [][/\ nextId' >= nextId
        /\ \A row \in items' :
             row.id \notin Ids(items) => row.id >= nextId /\ row.id < nextId'
        /\ \A row \in items, new \in items' :
             new.id = row.id => new.createdAt = row.createdAt
        /\ Cardinality(Ids(items') \ Ids(items)) + Cardinality(Ids(items) \ Ids(items')) <= 1
        /\ (Ids(items') \ Ids(items) # {} => \E c \in Conns : Answered(c, "create"))
        /\ (Ids(items) \ Ids(items') # {} => \E c \in Conns : Answered(c, "delete"))
        /\ \A c \in Conns :
             (Answered(c, "update") /\ req'[c].res.success) =>
               /\ Ids(items') = Ids(items)
               /\ req'[c].res.data[1].id = req[c].id.v]_vars

\* PATCH /items/1 with {"name": "b", "id": 9, "createdAt": 99} was answered
\* 200 with the row of id 1.
C25_Witness ==
  \E c \in Conns :
    /\ req[c].kind = "update" /\ req[c].pc = "done" /\ req[c].res.status = 200
    /\ req[c].rawBody.id = Some(9) /\ req[c].rawBody.createdAt = Some(99)
    /\ req[c].res.data[1].id = 1 /\ req[c].res.data[1].name = <<"b">>
    /\ Ids(items) = {1}

\* C23: the rows and the total of a list response agree, also when another
\* request writes while the list request is served: data holds no more
\* rows than total leaves after the offset, data.length <= max(0, total -
\* offset), as it would were both taken from one state of the store.
C23_ListConsistent ==
  \A c \in Conns :
    (req[c].kind = "list" /\ req[c].pc = "done" /\ req[c].res.success) =>
      LET m == Get(req[c].res.meta)
      IN Len(req[c].res.data) <= Max(0, m.totalItems - (m.page - 1) * m.limit)

\* C30: after a SIGTERM or SIGINT the process always exits; it exits only
\* after a signal, with code 0 or 1; with code 0 only when the server has
\* stopped accepting and no connection is left, so never while a request
\* accepted before the signal is being served; with code 1 only by the
\* timer; nothing runs after the exit; a second signal changes none of this.
C30_Shutdown ==
  /\ [](Exited => proc.signals > 0 /\ proc.exit \in {Some(0), Some(1)})
  /\ [](proc.exit = Some(0) => ~proc.listening /\ Open = {})
  /\ [][(~Exited /\ proc'.exit = Some(1)) => proc.timers > 0]_vars
  /\ [][Exited => vars' = vars]_vars
  /\ (proc.signals > 0) ~> Exited

\* Two signals arrived, the first while a request was being served, and the
\* process has exited with code 0.
C30_Witness ==
  /\ proc.exit = Some(0)
  /\ proc.signals = 2
  /\ proc.pending >= 1
====
